---------------------------- MODULE Spec2Model ----------------------------
(***************************************************************************)
(* Model of convert_to_geojson.py (variant "A", pass-through) and          *)
(* convert_to_multipoint.py (variant "B", LineString -> MultiPoint):       *)
(* process_json_file as an operator over parsed JSON values, and the       *)
(* directory loop of convert_directory_to_geojson /                        *)
(* convert_directory_to_multipoint as a state machine, one file per step.  *)
(***************************************************************************)
EXTENDS Integers, Sequences, FiniteSets, TLC

(***************************************************************************)
(* JSON values as json.load returns them.  A value is a record of one      *)
(* field, named after its Python type: None, str, int, list, dict.  A dict *)
(* is a function from its keys (strings) to values.                        *)
(***************************************************************************)
Null == [null |-> TRUE]
Str(s) == [str |-> s]
Num(n) == [num |-> n]
List(q) == [list |-> q]
Obj(f) == [obj |-> f]
EmptyObj == Obj(<<>>)
EmptyList == List(<<>>)

IsNull(x) == "null" \in DOMAIN x
IsStr(x) == "str" \in DOMAIN x
IsNum(x) == "num" \in DOMAIN x
IsList(x) == "list" \in DOMAIN x
IsObj(x) == "obj" \in DOMAIN x

\* dict.get(key): the value, or None when the key is absent.
Get(d, key) == IF key \in DOMAIN d.obj THEN d.obj[key] ELSE Null
\* dict.get(key, default)
GetD(d, key, default) == IF key \in DOMAIN d.obj THEN d.obj[key] ELSE default
\* d[key] = value
SetItem(f, key, value) == [k \in DOMAIN f \cup {key} |-> IF k = key THEN value ELSE f[k]]
\* dict.update(other)
Update(f, g) == [k \in DOMAIN f \cup DOMAIN g |-> IF k \in DOMAIN g THEN g[k] ELSE f[k]]

\* Python truth value of a JSON value (`not x`).
Truthy(x) ==
    CASE IsNull(x) -> FALSE
      [] IsStr(x) -> x.str # ""
      [] IsNum(x) -> x.num # 0
      [] IsList(x) -> Len(x.list) > 0
      [] IsObj(x) -> DOMAIN x.obj # {}

\* The strings of the model that have "features" as a substring.
FeaturesSuperstrings == {"features", "no features"}

\* `'features' in x`: key membership for a dict, element membership for a
\* list, substring for a str; an int is not iterable (TypeError).
InFault(x) == IF IsNum(x) \/ IsNull(x) THEN "TypeError" ELSE "none"
InFeatures(x) ==
    CASE IsObj(x) -> "features" \in DOMAIN x.obj
      [] IsList(x) -> \E n \in 1..Len(x.list) : x.list[n] = Str("features")
      [] IsStr(x) -> x.str \in FeaturesSuperstrings
      [] OTHER -> FALSE

\* `for feature in x`: the elements of a list, the keys of a dict, the
\* characters of a str; None and int are not iterable (TypeError).
IterFault(x) == IF IsNum(x) \/ IsNull(x) THEN "TypeError" ELSE "none"
IterElems(x) ==
    CASE IsList(x) -> x.list
      [] IsObj(x) -> IF DOMAIN x.obj = {} THEN <<>> ELSE <<Str(CHOOSE k \in DOMAIN x.obj : TRUE)>>
      [] IsStr(x) -> IF x.str = "" THEN <<>> ELSE <<Str("c")>>
      [] OTHER -> <<>>

Variants == {"A", "B"}

UserKeys == {"userId", "ageGroup", "countryCode", "gender"}
TrackKeys == {"trackId", "activity", "locationCountry", "summary", "resort"}

\* user_properties = {"userId": item.get("userId"), ...}
UserProperties(item) == [k \in UserKeys |-> Get(item, k)]

\* Faulty alternative: the feature's own properties are laid over the metadata.
MergePropertiesUnder(props, user_properties, track_item) ==
    Obj(Update(Update(user_properties, [k \in TrackKeys |-> Get(track_item, k)]), props.obj))

\* Faulty alternative: metadata fields the record lacks are left out instead of set to
\* None.
MergePropertiesSparse(props, user_properties, track_item) ==
    LET present == [k \in {x \in TrackKeys : x \in DOMAIN track_item.obj} |-> track_item.obj[k]]
        users == [k \in {x \in UserKeys : user_properties[x] # Null} |-> user_properties[k]]
    IN  Obj(Update(Update(props.obj, users), present))

\* new_properties = copy of the feature's properties, updated with the user
\* properties, then the five track keys assigned one by one.
MergeProperties(props, user_properties, track_item) ==
    LET p0 == Update(props.obj, user_properties)
        p1 == SetItem(p0, "trackId", Get(track_item, "trackId"))
        p2 == SetItem(p1, "activity", Get(track_item, "activity"))
        p3 == SetItem(p2, "locationCountry", Get(track_item, "locationCountry"))
        p4 == SetItem(p3, "summary", Get(track_item, "summary"))
        p5 == SetItem(p4, "resort", Get(track_item, "resort"))
    IN  Obj(p5)

\* Faulty alternative: the geometry type is compared without regard to case.
IsLineStringAnyCase(feature) ==
    Get(GetD(feature, "geometry", EmptyObj), "type") \in {Str("LineString"), Str("linestring")}

\* geometry filter of variant B: feature.get("geometry", {}).get("type") != "LineString"
IsLineString(feature) == Get(GetD(feature, "geometry", EmptyObj), "type") = Str("LineString")

\* multipoint_geometry = {"type": "MultiPoint", "coordinates": feature["geometry"].get("coordinates", [])}
MultiPointGeometry(feature) ==
    Obj([type |-> Str("MultiPoint"),
         coordinates |-> GetD(feature.obj["geometry"], "coordinates", EmptyList)])

\* Faulty alternative: variant A builds a new feature of three members, as
\* variant B does, instead of keeping the input feature.
EmitAFresh(feature, user_properties, track_item) ==
    Obj([type |-> Str("Feature"),
         geometry |-> Get(feature, "geometry"),
         properties |-> MergeProperties(GetD(feature, "properties", EmptyObj), user_properties, track_item)])

\* Variant A, body of the feature loop: the feature itself with its
\* properties replaced.
EmitA(feature, user_properties, track_item) ==
    Obj(SetItem(feature.obj, "properties",
                MergeProperties(GetD(feature, "properties", EmptyObj), user_properties, track_item)))

\* Variant B, body of the feature loop: a new feature of three members.
EmitB(feature, user_properties, track_item) ==
    Obj([type |-> Str("Feature"),
         geometry |-> MultiPointGeometry(feature),
         properties |-> MergeProperties(GetD(feature, "properties", EmptyObj), user_properties, track_item)])

\* One iteration of the feature loop: the fault it raises ("none" when it
\* raises nothing) and the features it appends (none or one).
FeatureStep(variant, feature, user_properties, track_item) ==
    IF ~IsObj(feature) THEN [fault |-> "AttributeError", emit |-> <<>>]
    ELSE IF variant = "B" /\ ~IsObj(GetD(feature, "geometry", EmptyObj))
    THEN [fault |-> "AttributeError", emit |-> <<>>]
    ELSE IF variant = "B" /\ ~IsLineString(feature)
    THEN [fault |-> "none", emit |-> <<>>]
    ELSE IF ~IsObj(GetD(feature, "properties", EmptyObj))
    THEN [fault |-> "AttributeError", emit |-> <<>>]
    ELSE [fault |-> "none",
          emit |-> <<IF variant = "A" THEN EmitA(feature, user_properties, track_item)
                     ELSE EmitB(feature, user_properties, track_item)>>]

\* Faulty alternative: the feature is inserted at the front of final_features.
AppendFeaturesFront(final_features, emit) == emit \o final_features

\* final_features.append(feature), for the features one iteration emits.
AppendFeatures(final_features, emit) == final_features \o emit

\* The state of process_json_file while it traverses: the fault raised so
\* far, final_features, and the lines printed.
RECURSIVE FeatureLoop(_, _, _, _, _, _)
FeatureLoop(variant, feats, k, user_properties, track_item, acc) ==
    IF k > Len(feats) \/ acc.fault # "none" THEN acc
    ELSE LET r == FeatureStep(variant, feats[k], user_properties, track_item)
         IN  FeatureLoop(variant, feats, k + 1, user_properties, track_item,
                         [acc EXCEPT !.fault = r.fault, !.features = AppendFeatures(@, r.emit)])

\* Body of the track loop.
TrackStep(variant, track_item, user_properties, acc) ==
    IF ~IsObj(track_item) THEN [acc EXCEPT !.fault = "AttributeError"]
    ELSE LET inner_feature_collection == Get(track_item, "track")
         IN  IF ~Truthy(inner_feature_collection)
             THEN [acc EXCEPT !.msgs = Append(@, "Warning: No 'track' or 'features' found")]
             ELSE IF InFault(inner_feature_collection) # "none"
             THEN [acc EXCEPT !.fault = InFault(inner_feature_collection)]
             ELSE IF ~InFeatures(inner_feature_collection)
             THEN [acc EXCEPT !.msgs = Append(@, "Warning: No 'track' or 'features' found")]
             ELSE IF ~IsObj(inner_feature_collection)
             THEN [acc EXCEPT !.fault = "AttributeError"]
             ELSE LET features == GetD(inner_feature_collection, "features", EmptyList)
                  IN  IF IterFault(features) # "none"
                      THEN [acc EXCEPT !.fault = IterFault(features)]
                      ELSE FeatureLoop(variant, IterElems(features), 1,
                                       user_properties, track_item, acc)

RECURSIVE TrackLoop(_, _, _, _, _)
TrackLoop(variant, tracks, j, user_properties, acc) ==
    IF j > Len(tracks) \/ acc.fault # "none" THEN acc
    ELSE TrackLoop(variant, tracks, j + 1, user_properties,
                   TrackStep(variant, tracks[j], user_properties, acc))

\* Faulty alternative: tracks is iterated without the isinstance check.
ItemStepUnchecked(variant, item, acc) ==
    IF ~IsObj(item) THEN [acc EXCEPT !.fault = "AttributeError"]
    ELSE LET tracks == GetD(item, "tracks", EmptyList)
         IN  IF IterFault(tracks) # "none"
             THEN [acc EXCEPT !.fault = IterFault(tracks)]
             ELSE TrackLoop(variant, IterElems(tracks), 1, UserProperties(item), acc)

\* Body of the item loop.
ItemStep(variant, item, acc) ==
    IF ~IsObj(item) THEN [acc EXCEPT !.fault = "AttributeError"]
    ELSE LET tracks == GetD(item, "tracks", EmptyList)
         IN  IF ~IsList(tracks)
             THEN [acc EXCEPT !.msgs = Append(@, "Warning: 'tracks' is not a list")]
             ELSE TrackLoop(variant, tracks.list, 1, UserProperties(item), acc)

RECURSIVE ItemLoop(_, _, _, _)
ItemLoop(variant, items, i, acc) ==
    IF i > Len(items) \/ acc.fault # "none" THEN acc
    ELSE ItemLoop(variant, items, i + 1, ItemStep(variant, items[i], acc))


(***************************************************************************)
(* Files.  An input file is what open + json.load make of it:              *)
(*   "json"       parses, to the value doc                                 *)
(*   "badsyntax"  json.load raises JSONDecodeError                         *)
(*   "notfound"   open raises FileNotFoundError (a dangling link)          *)
(*   "unreadable" open raises PermissionError / IsADirectoryError          *)
(*   "badutf8"    the read raises UnicodeDecodeError                       *)
(* An output file is "json" once json.dump has completed and "badsyntax"   *)
(* when the dump stopped part-way.                                         *)
(***************************************************************************)
JsonFile(doc) == [kind |-> "json", doc |-> doc]
BadSyntaxFile == [kind |-> "badsyntax", doc |-> Null]
NotFoundFile == [kind |-> "notfound", doc |-> Null]
UnreadableFile == [kind |-> "unreadable", doc |-> Null]
BadUtf8File == [kind |-> "badutf8", doc |-> Null]

\* What the environment does to open(output_path, 'w') and json.dump:
\* both succeed, open raises IOError, or the dump raises IOError (disk full).
WriteOutcomes == {"ok", "openfail", "dumpfail"}

\* The traversal of a parsed document (from `final_features = []` to the end
\* of the item loop): fault, final_features, lines printed, and whether the
\* function returned early because `items` is not a list.
Traverse(variant, data) ==
    LET acc0 == [fault |-> "none", features |-> <<>>, msgs |-> <<>>, early |-> FALSE]
    IN  IF ~IsObj(data) THEN [acc0 EXCEPT !.fault = "AttributeError"]
        ELSE LET items == GetD(data, "items", EmptyList)
             IN  IF ~IsList(items)
                 THEN [acc0 EXCEPT !.msgs = <<"Warning: 'items' is not a list">>, !.early = TRUE]
                 ELSE ItemLoop(variant, items.list, 1, acc0)

\* Faulty alternative: the check for an empty final_features is missing.
NoFeaturesNever(final_features) == FALSE

\* `if not final_features`
NoFeatures(final_features) == final_features = <<>>

\* Faulty alternative: json.JSONDecodeError is not caught.
ReadFileUncaught(entry) ==
    CASE entry.kind = "badsyntax" ->
           [fault |-> "JSONDecodeError", failed |-> FALSE, msgs |-> <<>>]
      [] entry.kind = "notfound" ->
           [fault |-> "none", failed |-> TRUE, msgs |-> <<"Error: Input file not found">>]
      [] entry.kind = "unreadable" ->
           [fault |-> "PermissionError", failed |-> FALSE, msgs |-> <<>>]
      [] entry.kind = "badutf8" ->
           [fault |-> "UnicodeDecodeError", failed |-> FALSE, msgs |-> <<>>]
      [] OTHER ->
           [fault |-> "none", failed |-> FALSE, msgs |-> <<>>]

\* Lines 18-26: open and json.load under the two except clauses.  fault is
\* the exception that leaves the function, failed says that the function
\* printed msgs and returned False.
ReadFile(entry) ==
    CASE entry.kind = "badsyntax" ->
           [fault |-> "none", failed |-> TRUE, msgs |-> <<"Error: Invalid JSON">>]
      [] entry.kind = "notfound" ->
           [fault |-> "none", failed |-> TRUE, msgs |-> <<"Error: Input file not found">>]
      [] entry.kind = "unreadable" ->
           [fault |-> "PermissionError", failed |-> FALSE, msgs |-> <<>>]
      [] entry.kind = "badutf8" ->
           [fault |-> "UnicodeDecodeError", failed |-> FALSE, msgs |-> <<>>]
      [] OTHER ->
           [fault |-> "none", failed |-> FALSE, msgs |-> <<>>]

\* output_geojson
FeatureCollection(features) ==
    Obj([type |-> Str("FeatureCollection"), features |-> List(features)])

\* process_json_file(input_path, output_path) on the input file `entry`, with
\* the output path behaving as `w`.  ret is the value returned (meaningless
\* when fault # "none": the exception leaves the function); written is the
\* state the call leaves the output file in (<<>> when it never opened it).
process_json_file(variant, entry, w) ==
    LET nothing == [ret |-> FALSE, fault |-> "none", msgs |-> <<>>,
                    features |-> <<>>, written |-> <<>>]
        rd == ReadFile(entry)
    IN  IF rd.fault # "none" THEN [nothing EXCEPT !.fault = rd.fault]
        ELSE IF rd.failed THEN [nothing EXCEPT !.msgs = rd.msgs]
        ELSE LET tr == Traverse(variant, entry.doc)
                 r0 == [nothing EXCEPT !.msgs = tr.msgs, !.features = tr.features]
             IN  IF tr.fault # "none" THEN [r0 EXCEPT !.fault = tr.fault]
                 ELSE IF tr.early THEN r0
                 ELSE IF NoFeatures(tr.features)
                 THEN [r0 EXCEPT !.msgs = Append(@, "Info: No valid track features found")]
                 ELSE IF w = "openfail"
                 THEN [r0 EXCEPT !.msgs = Append(@, "Error: Could not write to output file")]
                 ELSE IF w = "dumpfail"
                 THEN [r0 EXCEPT !.msgs = Append(@, "Error: Could not write to output file"),
                                 !.written = <<BadSyntaxFile>>]
                 ELSE [r0 EXCEPT !.ret = TRUE,
                                 !.written = <<JsonFile(FeatureCollection(tr.features))>>]

(***************************************************************************)
(* File names: <<root, ext>> is the name root.ext.                         *)
(***************************************************************************)
Lower(ext) == IF ext \in {"json", "JSON", "Json"} THEN "json" ELSE ext

\* filename.lower().endswith(".json")
EndsWithJson(filename) == Lower(filename[2]) = "json"

\* os.path.splitext(filename)[0] followed by the variant's suffix
OutputFilename(variant, filename) ==
    <<filename[1], IF variant = "A" THEN ".geojson" ELSE "_multipoint.geojson">>


(***************************************************************************)
(* The input documents of the model.                                       *)
(***************************************************************************)
MaxUsers == 2
MaxTracks == 2
MaxFeatures == 2
MaxFiles == 2

Position(x, y) == List(<<Num(x), Num(y)>>)

\* A LineString with an id, a property of its own and an inbound trackId;
\* its coordinates repeat a position.
LineFeature1 ==
    Obj([type |-> Str("Feature"), id |-> Num(7),
         geometry |-> Obj([type |-> Str("LineString"),
                           coordinates |-> List(<<Position(0, 0), Position(1, 1), Position(1, 1)>>)]),
         properties |-> Obj([name |-> Str("a"), trackId |-> Str("old")])])
\* A LineString with neither properties nor coordinates.
LineFeature2 ==
    Obj([type |-> Str("Feature"), geometry |-> Obj([type |-> Str("LineString")])])
\* A Point with empty properties and a bbox.
PointFeature ==
    Obj([type |-> Str("Feature"), bbox |-> List(<<Num(2), Num(2), Num(2), Num(2)>>),
         geometry |-> Obj([type |-> Str("Point"), coordinates |-> Position(2, 2)]),
         properties |-> EmptyObj])
\* A feature without geometry.
BareFeature ==
    Obj([type |-> Str("Feature"), properties |-> Obj([name |-> Str("b")])])
\* A geometry whose type differs from "LineString" in case only.
LowerFeature ==
    Obj([type |-> Str("Feature"),
         geometry |-> Obj([type |-> Str("linestring"), coordinates |-> List(<<Position(3, 3)>>)])])

Feats == {LineFeature1, PointFeature}

UserMeta1 == [userId |-> Str("u1"), ageGroup |-> Str("30-39"),
              countryCode |-> Str("AT"), gender |-> Str("f")]
UserMeta2 == [userId |-> Str("u2"), gender |-> Null]
UserMeta3 == [userId |-> Num(3), trackId |-> Str("u3t")]
UserMetas == <<UserMeta1, UserMeta2, UserMeta3>>

TrackMeta1 == [trackId |-> Str("t1"), activity |-> Str("ski"), locationCountry |-> Str("AT"),
               summary |-> Obj([distance |-> Num(5)]), resort |-> Obj([name |-> Str("r")])]
TrackMeta2 == [trackId |-> Str("t2"), summary |-> Null]
TrackMeta3 == [activity |-> Str("hike"), userId |-> Str("t3u")]
TrackMetas == <<TrackMeta1, TrackMeta2, TrackMeta3>>

\* The metadata of the n-th record from the end of its list: the records of
\* one list differ in their metadata.
UserMetaAt(n) == UserMetas[((n - 1) % Len(UserMetas)) + 1]
TrackMetaAt(n) == TrackMetas[((n - 1) % Len(TrackMetas)) + 1]

TrackRecord(meta, features) ==
    Obj(SetItem(meta, "track", Obj([type |-> Str("FeatureCollection"), features |-> List(features)])))
UserRecord(meta, tracks) == Obj(SetItem(meta, "tracks", List(tracks)))
Document(users) == Obj([items |-> List(users)])

\* TrackRecords that are skipped: no track at all, and a track without features.
TrackMissing == Obj(TrackMeta1)
TrackNoFeatures == Obj(SetItem(TrackMeta2, "track", Obj([type |-> Str("FeatureCollection")])))
\* UserRecords without usable tracks: tracks absent, and tracks not a list.
UserNoTracks == Obj(UserMeta1)
UserBadTracks == Obj(SetItem(UserMeta2, "tracks", Str("none")))

\* TrackRecords of exactly k features, for the j-th place from the end.
TracksExact(j, k) ==
    IF k = 0 THEN {TrackMissing, TrackNoFeatures}
    ELSE {TrackRecord(TrackMetaAt(j), fs) : fs \in [1..k -> Feats]}

\* Sequences of exactly j TrackRecords holding exactly k features.
RECURSIVE TrackSeqs(_, _)
TrackSeqs(j, k) ==
    IF j = 0 THEN (IF k = 0 THEN {<<>>} ELSE {})
    ELSE UNION {{<<t>> \o r : t \in TracksExact(j, n), r \in TrackSeqs(j - 1, k - n)} : n \in 0..k}

\* UserRecords of exactly j TrackRecords and k features, for the n-th place
\* from the end.
UsersExact(n, j, k) ==
    {UserRecord(UserMetaAt(n), ts) : ts \in TrackSeqs(j, k)}
        \cup (IF j = 0 /\ k = 0 THEN {UserBadTracks} ELSE {})

\* Sequences of exactly n UserRecords holding exactly j TrackRecords and k features.
RECURSIVE UserSeqs(_, _, _)
UserSeqs(n, j, k) ==
    IF n = 0 THEN (IF j = 0 /\ k = 0 THEN {<<>>} ELSE {})
    ELSE UNION {{<<u>> \o r : u \in UsersExact(n, a, b), r \in UserSeqs(n - 1, j - a, k - b)} :
                    <<a, b>> \in (0..j) \X (0..k)}

\* The documents of the shape of the data model: at most MaxUsers users,
\* MaxTracks tracks and MaxFeatures features in all.
ShapedDocs ==
    {Document(us) : us \in UNION {UserSeqs(n, j, k) :
                                     <<n, j, k>> \in (0..MaxUsers) \X (0..MaxTracks) \X (0..MaxFeatures)}}

\* One feature under each pairing of user and track metadata.
MergeDocs ==
    {Document(<<UserRecord(um, <<TrackRecord(tm, <<f>>)>>)>>) :
        um \in {UserMeta1, UserMeta2, UserMeta3, <<>>},
        tm \in {TrackMeta1, TrackMeta2, TrackMeta3, <<>>},
        f \in {LineFeature1, LineFeature2, PointFeature, BareFeature}}

OneTrack(features) == Document(<<UserRecord(UserMeta1, <<TrackRecord(TrackMeta1, features)>>)>>)

\* A larger document: three users, the second with tracks that is not a
\* list, skipped tracks before and between tracks with features, features of
\* every kind.
LargeDoc ==
    Document(<<UserRecord(UserMeta1, <<TrackNoFeatures,
                                       TrackRecord(TrackMeta1, <<LineFeature1, PointFeature>>)>>),
               UserBadTracks,
               UserRecord(UserMeta3, <<TrackRecord(TrackMeta2, <<LineFeature2>>),
                                       TrackMissing,
                                       TrackRecord(TrackMeta3, <<BareFeature, LineFeature1>>)>>)>>)

\* Further documents of the shape of the data model: `items` absent, a null
\* or empty track, null tracks, features without geometry or with another
\* geometry type, a track that is a string without "features" in it.
EdgeDocs ==
    { EmptyObj,
      LargeDoc,
      Obj([other |-> Str("x")]),
      Document(<<UserRecord(UserMeta1, <<Obj(SetItem(TrackMeta2, "track", Null)),
                                         TrackRecord(TrackMeta1, <<LineFeature1>>)>>)>>),
      Document(<<UserRecord(UserMeta1, <<Obj(SetItem(TrackMeta2, "track", EmptyObj))>>)>>),
      Document(<<Obj(SetItem(UserMeta1, "tracks", Null)),
                 UserRecord(UserMeta2, <<TrackRecord(TrackMeta2, <<LineFeature2>>)>>)>>),
      Document(<<UserNoTracks, UserRecord(UserMeta2, <<TrackRecord(TrackMeta1, <<>>)>>)>>),
      OneTrack(<<BareFeature>>),
      OneTrack(<<BareFeature, LineFeature1>>),
      OneTrack(<<LowerFeature, LineFeature1>>),
      OneTrack(<<PointFeature, BareFeature, LineFeature1>>) }

\* Documents whose `items` is present and not a list.
ItemsNotListDocs ==
    { Obj([items |-> Null]),
      Obj([items |-> Str("none")]),
      Obj([items |-> UserRecord(UserMeta1, <<TrackRecord(TrackMeta1, <<LineFeature1>>)>>)]) }

\* A LineString and a Point whose properties are null, a LineString whose
\* geometry is null.
NullPropsLine == Obj(SetItem(LineFeature1.obj, "properties", Null))
NullPropsPoint == Obj(SetItem(PointFeature.obj, "properties", Null))
NullGeometry == Obj(SetItem(BareFeature.obj, "geometry", Null))

\* Documents that are not of the shape of the data model.
MisshapenDocs ==
    { EmptyList, Null, Str("items"),
      Document(<<UserRecord(UserMeta1, <<TrackRecord(TrackMeta1, <<LineFeature1>>)>>), Str("x")>>),
      Document(<<Null>>),
      Document(<<UserRecord(UserMeta1, <<TrackRecord(TrackMeta1, <<LineFeature1>>), Num(1)>>)>>),
      Document(<<UserRecord(UserMeta1, <<Obj(SetItem(TrackMeta1, "track", Num(5)))>>)>>),
      Document(<<UserRecord(UserMeta1, <<Obj(SetItem(TrackMeta1, "track", Str("xyz"))),
                                         TrackRecord(TrackMeta1, <<LineFeature1>>)>>)>>),
      Document(<<UserRecord(UserMeta1, <<Obj(SetItem(TrackMeta1, "track", Str("no features")))>>)>>),
      Document(<<UserRecord(UserMeta1, <<Obj(SetItem(TrackMeta1, "track", Obj([features |-> Null])))>>)>>),
      Document(<<UserRecord(UserMeta1, <<Obj(SetItem(TrackMeta1, "track",
                                                     Obj([features |-> Obj([a |-> Num(1)])])))>>)>>),
      OneTrack(<<LineFeature1, NullPropsLine>>),
      OneTrack(<<NullPropsPoint, LineFeature1>>),
      OneTrack(<<NullGeometry, LineFeature1>>),
      OneTrack(<<LineFeature2, Str("x")>>) }

\* What the single input file of a directory may be.
SingleEntries ==
    {JsonFile(d) : d \in ShapedDocs \cup MergeDocs \cup EdgeDocs \cup ItemsNotListDocs \cup MisshapenDocs}
        \cup {BadSyntaxFile, NotFoundFile, UnreadableFile, BadUtf8File}

\* What each file of a directory of several files may be.
BatchEntries ==
    { JsonFile(OneTrack(<<LineFeature1>>)),
      JsonFile(OneTrack(<<PointFeature>>)),
      JsonFile(Obj([items |-> UserRecord(UserMeta1, <<TrackRecord(TrackMeta1, <<LineFeature1>>)>>)])),
      JsonFile(EmptyList),
      BadSyntaxFile,
      UnreadableFile }

BatchNames == {<<"a", "json">>, <<"a", "JSON">>, <<"b", "json">>, <<"notes", "txt">>}

Directories ==
    {[n \in {<<"a", "json">>} |-> e] : e \in SingleEntries}
        \cup UNION {[S -> BatchEntries] : S \in {T \in SUBSET BatchNames : Cardinality(T) <= MaxFiles}}

(***************************************************************************)
(* The run of one script over one input directory.                         *)
(***************************************************************************)
VARIABLES
    script,         \* "A": convert_to_geojson.py, "B": convert_to_multipoint.py
    isdir,          \* os.path.isdir(input_dir)
    indir,          \* the input directory: file name -> file
    outdir,         \* the output directory: file name -> file
    todo,           \* the names os.listdir has yet to yield
    file_count,
    success_count,
    pc,             \* "start", "loop", "done" (summary printed), "exit" (sys.exit(1)),
                    \* "crashed" (an exception left the script)
    calls,          \* the calls of process_json_file so far, in order: the file, the
                    \* exception that left the call ("none" when it returned), the
                    \* value returned, the lines printed, final_features
    summary,        \* the three numbers of the conversion summary, once printed
    rewrapped       \* the output file this directory was made from, if it was

vars == <<script, isdir, indir, outdir, todo, file_count, success_count, pc,
          calls, summary, rewrapped>>

Init ==
    /\ script \in Variants
    /\ \/ isdir = FALSE /\ indir = <<>>
       \/ isdir = TRUE /\ indir \in Directories
    /\ outdir = <<>>
    /\ todo = {}
    /\ file_count = 0
    /\ success_count = 0
    /\ pc = "start"
    /\ calls = <<>>
    /\ summary = <<>>
    /\ rewrapped = <<>>

\* Lines 116-125: the directory check, makedirs, the counters, os.listdir.
Start ==
    /\ pc = "start"
    /\ IF isdir
       THEN pc' = "loop" /\ todo' = DOMAIN indir
       ELSE pc' = "exit" /\ todo' = todo
    /\ file_count' = 0
    /\ success_count' = 0
    /\ UNCHANGED <<script, isdir, indir, outdir, calls, summary, rewrapped>>

\* One iteration of the directory loop on a name that does not end in .json.
Skip(filename) ==
    /\ pc = "loop"
    /\ filename \in todo
    /\ ~EndsWithJson(filename)
    /\ todo' = todo \ {filename}
    /\ UNCHANGED <<script, isdir, indir, outdir, file_count, success_count, pc,
                   calls, summary, rewrapped>>

\* One iteration of the directory loop on a name that ends in .json.
Convert(filename, w) ==
    /\ pc = "loop"
    /\ filename \in todo
    /\ EndsWithJson(filename)
    /\ LET output_filename == OutputFilename(script, filename)
           r == process_json_file(script, indir[filename], w)
       IN  /\ file_count' = file_count + 1
           /\ todo' = todo \ {filename}
           /\ outdir' = IF r.written = <<>> THEN outdir
                        ELSE SetItem(outdir, output_filename, r.written[1])
           /\ calls' = Append(calls, [file |-> filename, fault |-> r.fault, ret |-> r.ret,
                                      msgs |-> r.msgs, features |-> r.features])
           /\ IF r.fault # "none"
              THEN pc' = "crashed" /\ success_count' = success_count
              ELSE /\ pc' = pc
                   /\ success_count' = IF r.ret THEN success_count + 1 ELSE success_count
    /\ UNCHANGED <<script, isdir, indir, summary, rewrapped>>

\* Lines 144-148: the conversion summary.
Summary ==
    /\ pc = "loop"
    /\ todo = {}
    /\ pc' = "done"
    /\ summary' = <<[found |-> file_count, converted |-> success_count,
                     failed |-> file_count - success_count]>>
    /\ UNCHANGED <<script, isdir, indir, outdir, todo, file_count, success_count,
                   calls, rewrapped>>

\* The output wrapped back into the input shape: the FeatureCollection
\* becomes the `track` of one TrackRecord of one UserRecord.
Wrap(collection, user_meta, track_meta) ==
    Document(<<UserRecord(user_meta, <<Obj(SetItem(track_meta, "track", collection))>>)>>)

\* A second run of the script, on a directory holding one output file of
\* the first run wrapped back into the input shape.
Rewrap(name, user_meta, track_meta) ==
    /\ pc = "done"
    /\ rewrapped = <<>>
    /\ name \in DOMAIN outdir
    /\ outdir[name].kind = "json"
    /\ rewrapped' = <<outdir[name].doc>>
    /\ indir' = [n \in {<<"w", "json">>} |-> JsonFile(Wrap(outdir[name].doc, user_meta, track_meta))]
    /\ outdir' = <<>>
    /\ todo' = {}
    /\ file_count' = 0
    /\ success_count' = 0
    /\ pc' = "start"
    /\ calls' = <<>>
    /\ summary' = <<>>
    /\ UNCHANGED <<script, isdir>>

WrapUserMetas == {UserMeta2, UserMeta3}
WrapTrackMetas == {TrackMeta2, <<>>}

Next ==
    \/ Start
    \/ \E filename \in DOMAIN indir : Skip(filename)
    \/ \E filename \in DOMAIN indir, w \in WriteOutcomes : Convert(filename, w)
    \/ Summary
    \/ \E name \in DOMAIN outdir, um \in WrapUserMetas, tm \in WrapTrackMetas : Rewrap(name, um, tm)

Spec == Init /\ [][Next]_vars


(***************************************************************************)
(* The data model of the documents, stated on the document itself.         *)
(***************************************************************************)
Has(x, key) == IsObj(x) /\ key \in DOMAIN x.obj

\* The UserRecords of a document, the TrackRecords of a UserRecord that is
\* not skipped, the GeoFeatures of a TrackRecord that is not skipped.
UsersOf(doc) == IF Has(doc, "items") /\ IsList(doc.obj["items"]) THEN doc.obj["items"].list ELSE <<>>
TracksOf(u) == IF Has(u, "tracks") /\ IsList(u.obj["tracks"]) THEN u.obj["tracks"].list ELSE <<>>
FeaturesOf(t) ==
    IF Has(t, "track") /\ Has(t.obj["track"], "features") /\ IsList(t.obj["track"].obj["features"])
    THEN t.obj["track"].obj["features"].list ELSE <<>>

\* A UserRecord whose tracks is present and not a sequence; a TrackRecord
\* whose track is missing or lacks features.
SkippedUser(u) == Has(u, "tracks") /\ ~IsList(u.obj["tracks"])
SkippedTrack(t) ==
    \/ ~Has(t, "track")
    \/ t.obj["track"] = Null
    \/ IsObj(t.obj["track"]) /\ ~Has(t.obj["track"], "features")

HasLineString(f) ==
    /\ Has(f, "geometry")
    /\ Has(f.obj["geometry"], "type")
    /\ f.obj["geometry"].obj["type"] = Str("LineString")

Eligible(variant, f) == variant = "A" \/ HasLineString(f)

WellFormedFeature(f) ==
    /\ IsObj(f)
    /\ Has(f, "properties") => IsObj(f.obj["properties"])
    /\ Has(f, "geometry") => IsObj(f.obj["geometry"])
WellFormedTrack(t) ==
    /\ IsObj(t)
    /\ SkippedTrack(t)
         \/ /\ Has(t.obj["track"], "features")
            /\ IsList(t.obj["track"].obj["features"])
            /\ \A k \in 1..Len(FeaturesOf(t)) : WellFormedFeature(FeaturesOf(t)[k])
WellFormedUser(u) ==
    /\ IsObj(u)
    /\ \A j \in 1..Len(TracksOf(u)) : WellFormedTrack(TracksOf(u)[j])
WellFormed(doc) ==
    /\ IsObj(doc)
    /\ Has(doc, "items") => IsList(doc.obj["items"])
    /\ \A i \in 1..Len(UsersOf(doc)) : WellFormedUser(UsersOf(doc)[i])

\* The places <<user, track, feature>> of the eligible features.
UserAt(doc, p) == UsersOf(doc)[p[1]]
TrackAt(doc, p) == TracksOf(UserAt(doc, p))[p[2]]
FeatureAt(doc, p) == FeaturesOf(TrackAt(doc, p))[p[3]]
Places(variant, doc) ==
    UNION {UNION {{<<i, j, k>> : k \in {n \in 1..Len(FeaturesOf(TracksOf(UsersOf(doc)[i])[j])) :
                                         Eligible(variant, FeaturesOf(TracksOf(UsersOf(doc)[i])[j])[n])}} :
                  j \in 1..Len(TracksOf(UsersOf(doc)[i]))} :
           i \in 1..Len(UsersOf(doc))}

\* User-major, then track-major, then feature-major.
NotAfter(p, q) ==
    \/ p[1] < q[1]
    \/ p[1] = q[1] /\ p[2] < q[2]
    \/ p[1] = q[1] /\ p[2] = q[2] /\ p[3] <= q[3]
\* The index of place p in the traversal of the places P.
Rank(P, p) == Cardinality({q \in P : NotAfter(q, p)})

MetadataKeys == {"userId", "ageGroup", "countryCode", "gender",
                 "trackId", "activity", "locationCountry", "summary", "resort"}

PropertiesOf(f) == IF Has(f, "properties") THEN f.obj["properties"].obj ELSE <<>>
FieldOrNull(record, key) == IF key \in DOMAIN record.obj THEN record.obj[key] ELSE Null

\* The last call of process_json_file, its input file and document.
HasCall == calls # <<>>
Last == calls[Len(calls)]
LastFile == indir[Last.file]
LastDoc == LastFile.doc
LastReturned == HasCall /\ Last.fault = "none"
LastPlaces == Places(script, LastDoc)
LastOutput == OutputFilename(script, Last.file)

\* Output feature `out` was built from feature f of track t of user u.
BuiltFrom(variant, out, u, t, f) ==
    /\ Has(out, "properties")
    /\ Has(out.obj["properties"], "userId") /\ out.obj["properties"].obj["userId"] = FieldOrNull(u, "userId")
    /\ Has(out.obj["properties"], "trackId") /\ out.obj["properties"].obj["trackId"] = FieldOrNull(t, "trackId")
    /\ \A k \in DOMAIN PropertiesOf(f) \ MetadataKeys :
           Has(out.obj["properties"], k) /\ out.obj["properties"].obj[k] = PropertiesOf(f)[k]
    /\ variant = "A" =>
           /\ Has(out, "geometry") <=> Has(f, "geometry")
           /\ Has(f, "geometry") => out.obj["geometry"] = f.obj["geometry"]
    /\ variant = "B" =>
           /\ Has(out, "geometry")
           /\ Has(f.obj["geometry"], "coordinates") =>
                  /\ Has(out.obj["geometry"], "coordinates")
                  /\ out.obj["geometry"].obj["coordinates"] = f.obj["geometry"].obj["coordinates"]

\* C1: for a well-formed document with at least one eligible feature, in
\* both variants, the features of the output are the eligible features in
\* user-major, track-major, feature-major order: as many as there are
\* eligible features, output feature i built from the i-th of them; and the
\* file written holds exactly this sequence.
C1_TraversalOrder ==
    (LastReturned /\ LastFile.kind = "json" /\ WellFormed(LastDoc) /\ LastPlaces # {}) =>
        /\ Len(Last.features) = Cardinality(LastPlaces)
        /\ \A p \in LastPlaces :
               BuiltFrom(script, Last.features[Rank(LastPlaces, p)],
                         UserAt(LastDoc, p), TrackAt(LastDoc, p), FeatureAt(LastDoc, p))
        /\ Last.ret =>
               /\ LastOutput \in DOMAIN outdir
               /\ outdir[LastOutput].kind = "json"
               /\ outdir[LastOutput].doc.obj["features"] = List(Last.features)

\* Variant B wrote three features that come from different users and from
\* different tracks of one user, past features that are not eligible.
C1_Witness ==
    /\ LastReturned /\ LastFile.kind = "json" /\ WellFormed(LastDoc)
    /\ script = "B"
    /\ Last.ret
    /\ \E p, q \in LastPlaces : p[1] < q[1]
    /\ \E p, q \in LastPlaces : p[1] = q[1] /\ p[2] < q[2]
    /\ Cardinality(Places("A", LastDoc)) > Cardinality(LastPlaces)
    /\ Len(outdir[LastOutput].doc.obj["features"].list) = 3


\* The properties of output feature `out` are those of feature f overlaid
\* with the four fields of user u and the five fields of track t.
MergedAsSpecified(out, u, t, f) ==
    /\ Has(out, "properties")
    /\ IsObj(out.obj["properties"])
    /\ LET merged == out.obj["properties"].obj
       IN  /\ DOMAIN merged = DOMAIN PropertiesOf(f) \cup MetadataKeys
           /\ \A k \in {"userId", "ageGroup", "countryCode", "gender"} :
                  merged[k] = FieldOrNull(u, k)
           /\ \A k \in {"trackId", "activity", "locationCountry", "summary", "resort"} :
                  merged[k] = FieldOrNull(t, k)
           /\ \A k \in DOMAIN PropertiesOf(f) \ MetadataKeys : merged[k] = PropertiesOf(f)[k]

\* C2: in both variants the properties of every emitted feature are the
\* feature's original properties (none when it has none) overlaid with the
\* four user fields and the five track fields of its records: the nine keys
\* are present, carry the record's value or null, override a property of
\* the same name, and every other property keeps its value.
C2_PropertyMerge ==
    (LastReturned /\ LastFile.kind = "json") =>
        /\ Len(Last.features) = Cardinality(LastPlaces)
        /\ \A p \in LastPlaces :
               MergedAsSpecified(Last.features[Rank(LastPlaces, p)],
                                 UserAt(LastDoc, p), TrackAt(LastDoc, p), FeatureAt(LastDoc, p))

\* A feature that came with a trackId and a name of its own, of a user
\* without ageGroup, was emitted: the trackId is the track's, the name is
\* kept, ageGroup is null.
C2_Witness ==
    /\ LastReturned /\ LastFile.kind = "json"
    /\ \E p \in LastPlaces :
           LET f == FeatureAt(LastDoc, p)
               out == Last.features[Rank(LastPlaces, p)]
           IN  /\ PropertiesOf(f) = [name |-> Str("a"), trackId |-> Str("old")]
               /\ ~Has(UserAt(LastDoc, p), "ageGroup")
               /\ FieldOrNull(TrackAt(LastDoc, p), "trackId") = Str("t1")
               /\ out.obj["properties"].obj["trackId"] = Str("t1")
               /\ out.obj["properties"].obj["name"] = Str("a")
               /\ out.obj["properties"].obj["ageGroup"] = Null

\* C3: in variant B every output feature has geometry type "MultiPoint" and
\* the coordinates of the LineString it was built from, unchanged (where the
\* source has coordinates), and the output holds one feature per feature
\* whose geometry type is exactly "LineString", and no other.
C3_MultiPointOnly ==
    (script = "B" /\ LastReturned /\ LastFile.kind = "json") =>
        /\ Len(Last.features) = Cardinality(LastPlaces)
        /\ \A p \in LastPlaces :
               LET f == FeatureAt(LastDoc, p)
                   out == Last.features[Rank(LastPlaces, p)]
               IN  /\ HasLineString(f)
                   /\ Has(out, "geometry")
                   /\ Has(out.obj["geometry"], "type")
                   /\ out.obj["geometry"].obj["type"] = Str("MultiPoint")
                   /\ Has(f.obj["geometry"], "coordinates") =>
                          /\ Has(out.obj["geometry"], "coordinates")
                          /\ out.obj["geometry"].obj["coordinates"] = f.obj["geometry"].obj["coordinates"]

\* Variant B emitted a LineString whose coordinates repeat a position, from
\* a document that also holds a feature with another geometry type.
C3_Witness ==
    /\ script = "B" /\ LastReturned /\ LastFile.kind = "json"
    /\ \E p \in LastPlaces :
           Last.features[Rank(LastPlaces, p)].obj["geometry"] =
               Obj([type |-> Str("MultiPoint"),
                    coordinates |-> List(<<Position(0, 0), Position(1, 1), Position(1, 1)>>)])
    /\ \E q \in Places("A", LastDoc) \ LastPlaces : Has(FeatureAt(LastDoc, q), "geometry")


\* C4: in a batch run no fault raised while processing one file leaves that
\* file's processing: every call of process_json_file returns and the run
\* does not end in an exception.  (Stated as the claim states it; the code
\* violates it.)
C4_NoFaultPropagates ==
    /\ pc # "crashed"
    /\ \A n \in 1..Len(calls) : calls[n].fault = "none"

\* Malformed input: the text does not parse, or items is present and not a
\* sequence.
Malformed(entry) ==
    \/ entry.kind = "badsyntax"
    \/ entry.kind = "json" /\ Has(entry.doc, "items") /\ ~IsList(entry.doc.obj["items"])

\* The step is a call of process_json_file on file f.
CallOn(f) == pc = "loop" /\ f \in todo /\ f \notin todo' /\ calls' # calls
NewCall == calls'[Len(calls')]

\* C5: on input that is not well-formed JSON, or whose items is present and
\* not a sequence, process_json_file (either variant) returns False, raises
\* nothing, and leaves the output directory as it was.
C5_MalformedFails ==
    [][\A f \in DOMAIN indir :
          (CallOn(f) /\ Malformed(indir[f])) =>
              /\ Len(calls') = Len(calls) + 1
              /\ NewCall.file = f
              /\ NewCall.fault = "none"
              /\ NewCall.ret = FALSE
              /\ pc' = "loop"
              /\ outdir' = outdir]_vars

\* A document whose items is not a list, with a valid feature inside, was
\* reported failed after another file had been written to the same output
\* name, and that output is still there, intact.
C5_Witness ==
    \E n \in 1..Len(calls) :
        /\ indir[calls[n].file].kind = "json"
        /\ Malformed(indir[calls[n].file])
        /\ calls[n].fault = "none" /\ ~calls[n].ret
        /\ \E m \in 1..(n - 1) :
               /\ calls[m].ret
               /\ OutputFilename(script, calls[m].file) = OutputFilename(script, calls[n].file)
               /\ outdir[OutputFilename(script, calls[m].file)] =
                      JsonFile(FeatureCollection(calls[m].features))

\* A well-formed document without a qualifying feature.
EmptyResult(variant, entry) ==
    entry.kind = "json" /\ WellFormed(entry.doc) /\ Places(variant, entry.doc) = {}

ErrorLines == {"Error: Invalid JSON", "Error: Input file not found",
               "Error: Could not write to output file", "Warning: 'items' is not a list"}

\* C6: when the traversal of a well-formed document ends with no qualifying
\* feature, process_json_file writes no output file and reports the empty
\* result with its Info line, none of the lines it prints for malformed
\* input or for a failed write.  (The value returned is False, as it is for
\* malformed input: the two outcomes differ in the line reported.)
C6_EmptyResult ==
    [][\A f \in DOMAIN indir :
          (CallOn(f) /\ EmptyResult(script, indir[f])) =>
              /\ NewCall.fault = "none"
              /\ NewCall.ret = FALSE
              /\ outdir' = outdir
              /\ NewCall.msgs # <<>>
              /\ NewCall.msgs[Len(NewCall.msgs)] = "Info: No valid track features found"
              /\ \A n \in 1..Len(NewCall.msgs) : NewCall.msgs[n] \notin ErrorLines]_vars

\* Variant B found no LineString in a document that has features, after it
\* had written the output of another file.
C6_Witness ==
    /\ script = "B"
    /\ \E n \in 1..Len(calls) :
           /\ EmptyResult("B", indir[calls[n].file])
           /\ Places("A", indir[calls[n].file].doc) # {}
           /\ ~calls[n].ret
           /\ \E m \in 1..(n - 1) : calls[m].ret
           /\ DOMAIN outdir # {}

\* The document without its skipped UserRecords and TrackRecords.
PruneUser(u) ==
    IF Has(u, "tracks")
    THEN Obj([u.obj EXCEPT !["tracks"] = List(SelectSeq(TracksOf(u), LAMBDA t : ~SkippedTrack(t)))])
    ELSE u
Pruned(doc) ==
    IF Has(doc, "items")
    THEN LET kept == SelectSeq(UsersOf(doc), LAMBDA u : ~SkippedUser(u))
         IN  Obj([doc.obj EXCEPT !["items"] = List([i \in 1..Len(kept) |-> PruneUser(kept[i])])])
    ELSE doc

\* C7: a UserRecord whose tracks is not a sequence, and a TrackRecord whose
\* track is missing or lacks features, take only their own features out of
\* the output: the call raises nothing and final_features is what the
\* document without these records yields, every eligible feature of the
\* other users and tracks, in traversal order.
C7_NarrowestScope ==
    (HasCall /\ LastFile.kind = "json" /\ WellFormed(LastDoc)) =>
        /\ Last.fault = "none"
        /\ Len(Last.features) = Cardinality(LastPlaces)
        /\ Last.features = Traverse(script, Pruned(LastDoc)).features

\* A skipped user with emitted features of users before and after it, and a
\* skipped track with emitted features of tracks before and after it.
C7_Witness ==
    /\ LastReturned /\ LastFile.kind = "json" /\ WellFormed(LastDoc)
    /\ Last.ret
    /\ \E i \in 1..Len(UsersOf(LastDoc)) :
           /\ SkippedUser(UsersOf(LastDoc)[i])
           /\ \E p, q \in LastPlaces : p[1] < i /\ i < q[1]
    /\ \E p, q \in LastPlaces :
           /\ p[1] = q[1]
           /\ \E j \in (p[2] + 1)..(q[2] - 1) : SkippedTrack(TracksOf(UserAt(LastDoc, p))[j])

\* C8: when the FeatureCollection variant A wrote is wrapped back into the
\* input shape and variant A runs again, the call raises nothing, no feature
\* is dropped, and every feature of the second output has the nine metadata
\* keys and every other property it had after the first run, with its value.
C8_RerunKeepsMetadata ==
    (script = "A" /\ rewrapped # <<>> /\ HasCall) =>
        LET first == rewrapped[1].obj["features"].list
            second == Last.features
        IN  /\ Last.fault = "none"
            /\ Len(second) = Len(first)
            /\ \A n \in 1..Len(first) :
                   /\ Has(second[n], "properties")
                   /\ MetadataKeys \subseteq DOMAIN second[n].obj["properties"].obj
                   /\ \A k \in DOMAIN first[n].obj["properties"].obj \ MetadataKeys :
                          /\ k \in DOMAIN second[n].obj["properties"].obj
                          /\ second[n].obj["properties"].obj[k] = first[n].obj["properties"].obj[k]

\* The second run of variant A wrote its output, of features that carry a
\* property of their own next to all the metadata keys.
C8_Witness ==
    /\ script = "A" /\ rewrapped # <<>> /\ LastReturned
    /\ Last.ret
    /\ Len(Last.features) >= 2
    /\ \E n \in 1..Len(Last.features) :
           /\ "name" \in DOMAIN rewrapped[1].obj["features"].list[n].obj["properties"].obj
           /\ Last.features[n].obj["properties"].obj["name"] = Str("a")
           /\ Last.features[n].obj["properties"].obj["ageGroup"] = Null

\* The calls that returned r.
Returned(r) == {n \in 1..Len(calls) : calls[n].fault = "none" /\ calls[n].ret = r}
JsonNames == {f \in DOMAIN indir : f[2] \in {"json", "JSON", "Json"}}

\* C9: in a batch run the tally is consistent at every step, success_count
\* counts the calls that returned True, file_count - success_count those
\* that returned False, and when the run is over every file whose name ends
\* in .json has been processed exactly once and the summary reports these
\* numbers.  (Stated as the claim states it; the code violates it.)
C9_TallyConsistent ==
    /\ 0 <= success_count /\ success_count <= file_count
    /\ success_count = Cardinality(Returned(TRUE))
    /\ file_count - success_count = Cardinality(Returned(FALSE))
    /\ \A f \in JsonNames : Cardinality({n \in 1..Len(calls) : calls[n].file = f}) <= 1
    /\ pc \in {"done", "crashed"} =>
           \A f \in JsonNames :
               Cardinality({n \in 1..Len(calls) : calls[n].file = f /\ calls[n].fault = "none"}) = 1
    /\ pc = "done" =>
           summary = <<[found |-> Cardinality(JsonNames),
                        converted |-> Cardinality(Returned(TRUE)),
                        failed |-> Cardinality(Returned(FALSE))]>>

\* What the claim has variant B make of a feature variant A emitted: the
\* same feature with its geometry relabelled.
Relabelled(a) ==
    Obj([a.obj EXCEPT !["geometry"] =
            Obj([type |-> Str("MultiPoint"),
                 coordinates |-> IF Has(a.obj["geometry"], "coordinates")
                                 THEN a.obj["geometry"].obj["coordinates"]
                                 ELSE List(<<>>)])])

\* C10: the features variant B emits are the features variant A emits for
\* the same document, restricted to those whose geometry type is
\* "LineString", each with its geometry relabelled MultiPoint and every
\* other member as variant A emits it.  (Stated as the claim states it; the
\* code violates it.)
C10_VariantBRefinesA ==
    (script = "B" /\ LastReturned /\ LastFile.kind = "json") =>
        LET a == Traverse("A", LastDoc)
            lines == SelectSeq(a.features, HasLineString)
        IN  /\ a.fault = "none"
            /\ Len(Last.features) = Len(lines)
            /\ \A n \in 1..Len(lines) : Last.features[n] = Relabelled(lines[n])

\* Output feature `out` is input feature f with nothing but its properties
\* changed: the same members, `properties` added when f has none, and every
\* member other than `properties` with the value it has in f.
PassedThrough(out, f) ==
    /\ IsObj(out)
    /\ DOMAIN out.obj = DOMAIN f.obj \cup {"properties"}
    /\ \A k \in DOMAIN f.obj \ {"properties"} : out.obj[k] = f.obj[k]

\* C11: variant A is a pass-through that changes only properties: for a
\* well-formed document every feature of every track that is not skipped is
\* emitted, whatever its geometry type and also when it has no geometry, and
\* each emitted feature has the geometry and every member other than
\* properties exactly as the input feature has them (and no geometry when
\* the input feature has none); the file written holds these features.
C11_PassThrough ==
    (script = "A" /\ LastReturned /\ LastFile.kind = "json" /\ WellFormed(LastDoc)) =>
        LET all == Places("A", LastDoc)
        IN  /\ Len(Last.features) = Cardinality(all)
            /\ \A p \in all : PassedThrough(Last.features[Rank(all, p)], FeatureAt(LastDoc, p))
            /\ (Last.ret /\ all # {}) =>
                   outdir[LastOutput] = JsonFile(FeatureCollection(Last.features))

\* Variant A wrote a document's features, among them one without geometry,
\* a Point with a bbox and a LineString with an id, each member intact.
C11_Witness ==
    /\ script = "A" /\ LastReturned /\ LastFile.kind = "json" /\ WellFormed(LastDoc)
    /\ Last.ret
    /\ \E p \in Places("A", LastDoc) :
           /\ ~Has(FeatureAt(LastDoc, p), "geometry")
           /\ ~Has(Last.features[Rank(Places("A", LastDoc), p)], "geometry")
           /\ Has(Last.features[Rank(Places("A", LastDoc), p)], "properties")
    /\ \E p \in Places("A", LastDoc) :
           /\ Has(FeatureAt(LastDoc, p), "bbox")
           /\ Last.features[Rank(Places("A", LastDoc), p)].obj["geometry"].obj["type"] = Str("Point")
           /\ Last.features[Rank(Places("A", LastDoc), p)].obj["bbox"] = FeatureAt(LastDoc, p).obj["bbox"]
    /\ \E p \in Places("A", LastDoc) :
           /\ Has(FeatureAt(LastDoc, p), "id")
           /\ Last.features[Rank(Places("A", LastDoc), p)].obj["id"] = Num(7)

\* The calls on which process_json_file returned True, by file.
Converted == {calls[n].file : n \in Returned(TRUE)}

\* C12: in a batch run every successfully converted input file has an
\* output file of its own: no two distinct input files that were converted
\* share an output name, the output of each is still what was written for
\* it, and when the run is over the number of output files in the output
\* directory, which started empty, is success_count; a file that a failed
\* write left truncated is not counted as an output file.  (Stated as the
\* claim states it; the code violates it.)
C12_OwnOutputFile ==
    rewrapped = <<>> =>
        /\ \A f, g \in Converted :
               f # g => OutputFilename(script, f) # OutputFilename(script, g)
        /\ \A n \in Returned(TRUE) :
               /\ OutputFilename(script, calls[n].file) \in DOMAIN outdir
               /\ outdir[OutputFilename(script, calls[n].file)] =
                      JsonFile(FeatureCollection(calls[n].features))
        /\ pc = "done" =>
               Cardinality({o \in DOMAIN outdir : outdir[o].kind = "json"}) = success_count

=============================================================================
